---------------------------- MODULE Spec2Model ----------------------------
(***************************************************************************)
(* Model of merge_no_api.py: the CLI run (main) and the merge engine       *)
(* (merge_data) that left-joins a Salesforce opportunity table with a      *)
(* Tubular metrics table, optionally resolving the channel identifier      *)
(* through a channel map.                                                  *)
(*                                                                         *)
(* A table (pandas DataFrame) is a record [cols, rows]: cols is the        *)
(* sequence of column labels (labels may repeat after a rename), rows is a *)
(* sequence of rows, each a sequence of cells aligned with cols.  Cells    *)
(* are strings (object dtype); NaN is the null cell.  An optional value    *)
(* (None or a table) is a sequence of length 0 or 1.  Input tables come    *)
(* from pd.read_csv, so their column labels are distinct.  The errors      *)
(* pandas raises for join keys of incompatible dtypes are outside the      *)
(* model (every cell is a string or null).                                 *)
(***************************************************************************)
EXTENDS Integers, Sequences, FiniteSets, TLC

NaN == "NaN"
None == <<>>
Some(x) == <<x>>

(***************************************************************************)
(* Sequence helpers                                                        *)
(***************************************************************************)
Range(s) == {s[i] : i \in 1..Len(s)}

Contains(s, x) == \E i \in 1..Len(s) : s[i] = x

Positions(s, x) == {i \in 1..Len(s) : s[i] = x}

FirstIndex(s, x) == CHOOSE i \in Positions(s, x) : \A j \in Positions(s, x) : i <= j

RECURSIVE Flatten(_)
Flatten(ss) == IF ss = <<>> THEN <<>> ELSE Head(ss) \o Flatten(Tail(ss))

\* The increasing sequence of the members of a set of naturals.
RECURSIVE Ascending(_)
Ascending(S) ==
    IF S = {} THEN <<>>
    ELSE LET m == CHOOSE x \in S : \A y \in S : x <= y
         IN  <<m>> \o Ascending(S \ {m})

\* s with the positions in D removed.
Without(s, D) == LET keep == Ascending((1..Len(s)) \ D)
                 IN  [k \in 1..Len(keep) |-> s[keep[k]]]

\* s restricted to the positions listed in idx, in idx's order.
Take(s, idx) == [k \in 1..Len(idx) |-> s[idx[k]]]

(***************************************************************************)
(* Column-name constants of merge_no_api.py                                *)
(***************************************************************************)
ChannelCandidates ==
    <<"Account.YouTube_Channel_ID__c", "YouTube_Channel_ID__c", "channel_id", "Channel_ID__c">>

AccountCandidates == <<"Account.Name", "account_name", "Account">>

MetricFields == <<"views_30d", "audience_size", "category", "growth_30d_pct", "channel_name">>

MetricsSelection ==
    <<"channel_id", "channel_name", "views_30d", "audience_size", "category", "growth_30d_pct">>

MapSelection == <<"account_name", "channel_id">>

Preferred(channel_col) ==
    <<"Account.Id", "Account.Name", "Id", "Name", "StageName", "Amount", "CloseDate",
      "Owner.Name", channel_col, "channel_name", "views_30d", "audience_size", "category",
      "growth_30d_pct">>

(***************************************************************************)
(* Error messages (every one is raised as ValueError)                      *)
(***************************************************************************)
ErrBadPair == "Bad metrics column pair. Use new_name:existing_header"
ErrNoChannel ==
    "Opps CSV has no channel_id column. Provide a channel map with account_name and channel_id."
ErrMapSchema == "channel_map.csv must include: account_name, channel_id"
ErrNoAccount == "Couldn't find Account.Name column in opps to join with channel_map."
ErrMetricsSchema == "Metrics CSV must include 'channel_id' (or map it via --metrics-cols)."
\* pandas' ValueError when the join key names more than one column of a frame
ErrNotUnique == "The column label 'channel_id' is not unique."

\* The messages whose text contains the word channel_id.
CitesChannelId == {ErrNoChannel, ErrMapSchema, ErrMetricsSchema, ErrNotUnique}

(***************************************************************************)
(* parse_colmap.  The argument is modelled after arg.split(","): a         *)
(* sequence of fragments.  A fragment is blank (only whitespace), bare (no *)
(* ":" in it) or a pair new:old; ws says whether whitespace surrounds the  *)
(* two sides, which strip() removes.  A raw side is [ws, word].            *)
(* The mapping (a dict, insertion ordered) is a sequence of <<new, old>>.  *)
(***************************************************************************)
Strip(raw) == raw.word

DictKeys(d) == [i \in 1..Len(d) |-> d[i][1]]

\* mapping[k] = v : overwrite in place when k is a key, else append.
DictSet(d, k, v) ==
    IF Contains(DictKeys(d), k)
    THEN [d EXCEPT ![FirstIndex(DictKeys(d), k)] = <<k, v>>]
    ELSE Append(d, <<k, v>>)

RECURSIVE ParseFrom(_, _)
ParseFrom(frags, mapping) ==
    IF frags = <<>> THEN [ok |-> TRUE, mapping |-> mapping]
    ELSE LET f == Head(frags) IN
         IF f.kind = "blank" THEN ParseFrom(Tail(frags), mapping)
         ELSE IF f.kind = "bare" THEN [ok |-> FALSE, mapping |-> <<>>]
         ELSE ParseFrom(Tail(frags), DictSet(mapping, Strip(f.new), Strip(f.old)))

parse_colmap(arg) == ParseFrom(arg, <<>>)

(***************************************************************************)
(* Column resolvers                                                        *)
(***************************************************************************)
RECURSIVE FirstPresent(_, _)
FirstPresent(candidates, cols) ==
    IF candidates = <<>> THEN None
    ELSE IF Contains(cols, Head(candidates)) THEN Some(Head(candidates))
    ELSE FirstPresent(Tail(candidates), cols)

\* A resolver that walks the table's columns instead of the priority list.
RECURSIVE FirstColumnAmong(_, _)
FirstColumnAmong(cols, candidates) ==
    IF cols = <<>> THEN None
    ELSE IF Contains(candidates, Head(cols)) THEN Some(Head(cols))
    ELSE FirstColumnAmong(Tail(cols), candidates)

FindByTableOrder(cols) == FirstColumnAmong(cols, ChannelCandidates)

_find_channel_column(cols) == FirstPresent(ChannelCandidates, cols)

_select_account_column(cols) == FirstPresent(AccountCandidates, cols)

(***************************************************************************)
(* Tables and the pandas operations merge_data uses                        *)
(***************************************************************************)
Tbl(cols, rows) == [cols |-> cols, rows |-> rows]

HasColumn(t, c) == Contains(t.cols, c)

\* The cells of the (first) column labelled c, one per row.
Column(t, c) == [r \in 1..Len(t.rows) |-> t.rows[r][FirstIndex(t.cols, c)]]

\* df[[names]]: for each listed label, every column carrying that label.
SelectCols(t, names) ==
    LET idx == Flatten([k \in 1..Len(names) |-> Ascending(Positions(t.cols, names[k]))])
    IN  Tbl(Take(t.cols, idx), [r \in 1..Len(t.rows) |-> Take(t.rows[r], idx)])

\* df[c] = None for a label that is not a column: a new last column of nulls.
AddNullColumn(t, c) == Tbl(Append(t.cols, c), [r \in 1..Len(t.rows) |-> Append(t.rows[r], NaN)])

RECURSIVE SynthesizeFrom(_, _)
SynthesizeFrom(fields, t) ==
    IF fields = <<>> THEN t
    ELSE SynthesizeFrom(Tail(fields),
                        IF HasColumn(t, Head(fields)) THEN t ELSE AddNullColumn(t, Head(fields)))

\* for c in [...]: if c not in metrics.columns: metrics[c] = None
SynthesizeMissing(t) == SynthesizeFrom(MetricFields, t)

DictGet(d, k) == d[FirstIndex(DictKeys(d), k)][2]

\* {v: k for k, v in items}, keeping the first expected name seen for a header.
RECURSIVE InvertKeepFirst(_, _)
InvertKeepFirst(items, inv) ==
    IF items = <<>> THEN inv
    ELSE InvertKeepFirst(Tail(items),
                         IF Contains(DictKeys(inv), Head(items)[2]) THEN inv
                         ELSE Append(inv, <<Head(items)[2], Head(items)[1]>>))

InvertFirstWins(items) == InvertKeepFirst(items, <<>>)

RECURSIVE InvertFrom(_, _)
InvertFrom(items, inv) ==
    IF items = <<>> THEN inv
    ELSE InvertFrom(Tail(items), DictSet(inv, Head(items)[2], Head(items)[1]))

\* {v: k for k, v in metrics_colmap.items()}: a later item overwrites an earlier one.
InvertDict(items) == InvertFrom(items, <<>>)

\* df.rename(columns=renamer): every label is looked up once, all at the same time.
RenameColumns(t, renamer) ==
    [t EXCEPT !.cols = [i \in 1..Len(t.cols) |->
        IF Contains(DictKeys(renamer), t.cols[i]) THEN DictGet(renamer, t.cols[i]) ELSE t.cols[i]]]

\* A rename that uses the mapping as given (expected -> source), not inverted.
RenameForward(t, mapping) == IF mapping = <<>> THEN t ELSE RenameColumns(t, mapping)

\* A rename that maps both ways (source -> expected and expected -> source).
RenameBothWays(t, mapping) ==
    IF mapping = <<>> THEN t ELSE RenameColumns(t, InvertDict(mapping) \o mapping)

\* if metrics_colmap: metrics = metrics.rename(columns={v: k for k, v in ...})
HeaderRename(t, mapping) == IF mapping = <<>> THEN t ELSE RenameColumns(t, InvertDict(mapping))

\* pandas' default suffixes for a label both frames carry.
SuffixX(c) ==
    CASE c = "account_name" -> "account_name_x"
      [] c = "channel_id" -> "channel_id_x"
      [] c = "channel_name" -> "channel_name_x"
      [] c = "views_30d" -> "views_30d_x"
      [] c = "audience_size" -> "audience_size_x"
      [] c = "category" -> "category_x"
      [] c = "growth_30d_pct" -> "growth_30d_pct_x"

SuffixY(c) ==
    CASE c = "account_name" -> "account_name_y"
      [] c = "channel_id" -> "channel_id_y"
      [] c = "channel_name" -> "channel_name_y"
      [] c = "views_30d" -> "views_30d_y"
      [] c = "audience_size" -> "audience_size_y"
      [] c = "category" -> "category_y"
      [] c = "growth_30d_pct" -> "growth_30d_pct_y"

\* The row pairs <<i, j>> of a left join: every left row i in order, once per
\* right row j with an equal key (null keys equal each other), or <<i, 0>>.
LeftJoinPairs(lkeys, rkeys) ==
    Flatten([i \in 1..Len(lkeys) |->
        LET m == Ascending(Positions(rkeys, lkeys[i]))
        IN  IF m = <<>> THEN << <<i, 0>> >> ELSE [k \in 1..Len(m) |-> <<i, m[k]>>]])

\* left.merge(right, left_on=lk, right_on=rk, how="left").  Keys of the same
\* name become one column (the right one is dropped; the left one when the left
\* frame has no rows); any other label both frames carry gets _x and _y.
Merge(left, lk, right, rk) ==
    LET ldrop == IF lk = rk /\ Len(left.rows) = 0 THEN {FirstIndex(left.cols, lk)} ELSE {}
        rdrop == IF lk = rk /\ Len(left.rows) > 0 THEN {FirstIndex(right.cols, rk)} ELSE {}
        lcols == Without(left.cols, ldrop)
        rcols == Without(right.cols, rdrop)
        both  == Range(lcols) \cap Range(rcols)
        pairs == LeftJoinPairs(Column(left, lk), Column(right, rk))
        nulls == [k \in 1..Len(rcols) |-> NaN]
    IN  [pairs |-> pairs,
         table |-> Tbl(
            [k \in 1..Len(lcols) |-> IF lcols[k] \in both THEN SuffixX(lcols[k]) ELSE lcols[k]]
            \o [k \in 1..Len(rcols) |-> IF rcols[k] \in both THEN SuffixY(rcols[k]) ELSE rcols[k]],
            [p \in 1..Len(pairs) |->
                Without(left.rows[pairs[p][1]], ldrop)
                \o (IF pairs[p][2] = 0 THEN nulls ELSE Without(right.rows[pairs[p][2]], rdrop))])]

\* opps.merge(cmap[["account_name", "channel_id"]], left_on=acct_col, right_on="account_name")
MapJoin(o, acct_col, cmap) == Merge(o, acct_col, SelectCols(cmap, MapSelection), "account_name")

\* A join that first renames the resolved channel column to channel_id.
MetricsJoinRenamed(o, ch, m) ==
    Merge(RenameColumns(o, << <<ch, "channel_id">> >>), "channel_id",
          SelectCols(m, MetricsSelection), "channel_id")

\* opps.merge(metrics[[...six columns...]], left_on=channel_col, right_on="channel_id")
MetricsJoin(o, ch, m) == Merge(o, ch, SelectCols(m, MetricsSelection), "channel_id")

\* cols = [c for c in preferred if c in merged.columns]
\*      + [c for c in merged.columns if c not in preferred];  merged[cols]
OrderedLabels(cols, ch) ==
    SelectSeq(Preferred(ch), LAMBDA c : Contains(cols, c))
    \o SelectSeq(cols, LAMBDA c : ~Contains(Preferred(ch), c))

Reorder(t, ch) == SelectCols(t, OrderedLabels(t.cols, ch))

\* "channel_id" not in metrics.columns
HasChannelId(t) == HasColumn(t, "channel_id")

\* The error of the map fallback that walks the checks in another order.
FallbackErrorAccountFirst(cols, cmap) ==
    IF cmap = None THEN ErrNoChannel
    ELSE IF _select_account_column(cols) = None THEN ErrNoAccount
    ELSE IF ~HasColumn(cmap[1], "account_name") \/ ~HasColumn(cmap[1], "channel_id")
         THEN ErrMapSchema
    ELSE ""

\* The first failing check of the map fallback ("" when all pass).
FallbackError(cols, cmap) ==
    IF cmap = None THEN ErrNoChannel
    ELSE IF ~HasColumn(cmap[1], "account_name") \/ ~HasColumn(cmap[1], "channel_id")
         THEN ErrMapSchema
    ELSE IF _select_account_column(cols) = None THEN ErrNoAccount
    ELSE ""

(***************************************************************************)
(* State of one CLI run (main)                                             *)
(***************************************************************************)
VARIABLES
    opps_df,       \* pd.read_csv(args.opps)
    metrics_df,    \* pd.read_csv(args.metrics)
    map_df,        \* pd.read_csv(args.map) if args.map else None
    metrics_cols,  \* args.metrics_cols, split into fragments
    pc,            \* the statement the run is at
    colmap,        \* parse_colmap's result
    opps,          \* merge_data's working copy of opps_df
    metrics,       \* merge_data's working copy of metrics_df
    channel_col,   \* None or Some(column name)
    map_used,
    map_join,      \* row pairs of the join with the channel map
    metrics_join,  \* row pairs of the join with the metrics
    merged,        \* None or Some(table): merge_data's return value
    err,           \* the ValueError raised ("" when none)
    out_file,      \* None or Some(table): what was written to --out
    once,          \* the metrics columns after one header rename
    twice          \* the metrics columns after a second header rename

vars == <<opps_df, metrics_df, map_df, metrics_cols, pc, colmap, opps, metrics, channel_col,
          map_used, map_join, metrics_join, merged, err, out_file, once, twice>>

inputs == <<opps_df, metrics_df, map_df, metrics_cols>>

Raise(e) == pc' = "raised" /\ err' = e

\* colmap = parse_colmap(args.metrics_cols)
ParseColmap ==
    /\ pc = "parse"
    /\ LET res == parse_colmap(metrics_cols)
       IN  IF res.ok
           THEN colmap' = res.mapping /\ pc' = "resolve" /\ err' = err
           ELSE colmap' = colmap /\ Raise(ErrBadPair)
    /\ UNCHANGED <<inputs, opps, metrics, channel_col, map_used, map_join, metrics_join,
                   merged, out_file, once, twice>>

\* merge_data: copies; channel_col = _find_channel_column(opps); map_used = False
ResolveChannel ==
    /\ pc = "resolve"
    /\ opps' = opps_df
    /\ metrics' = metrics_df
    /\ channel_col' = _find_channel_column(opps_df.cols)
    /\ map_used' = FALSE
    /\ pc' = IF channel_col' = None THEN "fallback" ELSE "rename"
    /\ UNCHANGED <<inputs, colmap, map_join, metrics_join, merged, err, out_file, once, twice>>

\* merge_data: if channel_col is None: ... (the channel-map fallback)
MapFallback ==
    /\ pc = "fallback"
    /\ LET e == FallbackError(opps.cols, map_df)
       IN  IF e # ""
           THEN /\ Raise(e)
                /\ UNCHANGED <<opps, channel_col, map_used, map_join>>
           ELSE LET j == MapJoin(opps, _select_account_column(opps.cols)[1], map_df[1])
                IN  /\ opps' = j.table
                    /\ map_join' = j.pairs
                    /\ channel_col' = Some("channel_id")
                    /\ map_used' = TRUE
                    /\ pc' = "rename"
                    /\ err' = err
    /\ UNCHANGED <<inputs, colmap, metrics, metrics_join, merged, out_file, once, twice>>

\* merge_data: if metrics_colmap: metrics = metrics.rename(...)
RenameMetrics ==
    /\ pc = "rename"
    /\ metrics' = HeaderRename(metrics, colmap)
    /\ pc' = "require"
    /\ UNCHANGED <<inputs, colmap, opps, channel_col, map_used, map_join, metrics_join,
                   merged, err, out_file, once, twice>>

\* merge_data: if "channel_id" not in metrics.columns: raise ValueError(...)
RequireChannelId ==
    /\ pc = "require"
    /\ IF HasChannelId(metrics) THEN pc' = "join" /\ err' = err ELSE Raise(ErrMetricsSchema)
    /\ UNCHANGED <<inputs, colmap, opps, metrics, channel_col, map_used, map_join,
                   metrics_join, merged, out_file, once, twice>>

\* merge_data: synthesize the missing metric fields, join, reorder, attach attrs, return
JoinMetrics ==
    /\ pc = "join"
    /\ metrics' = SynthesizeMissing(metrics)
    /\ IF Cardinality(Positions(metrics.cols, "channel_id")) > 1
       THEN Raise(ErrNotUnique) /\ UNCHANGED <<metrics_join, merged>>
       ELSE LET j == MetricsJoin(opps, channel_col[1], metrics')
            IN  /\ merged' = Some(Reorder(j.table, channel_col[1]))
                /\ metrics_join' = j.pairs
                /\ pc' = "write"
                /\ err' = err
    /\ UNCHANGED <<inputs, colmap, opps, channel_col, map_used, map_join, out_file, once, twice>>

\* main: merged.to_csv(args.out, index=False)
WriteOut ==
    /\ pc = "write"
    /\ out_file' = merged
    /\ pc' = "done"
    /\ UNCHANGED <<inputs, colmap, opps, metrics, channel_col, map_used, map_join,
                   metrics_join, merged, err, once, twice>>

\* main: except ValueError as exc: raise SystemExit(str(exc)) from exc
Exit ==
    /\ pc = "raised"
    /\ pc' = "exit"
    /\ UNCHANGED <<inputs, colmap, opps, metrics, channel_col, map_used, map_join,
                   metrics_join, merged, err, out_file, once, twice>>

Next ==
    \/ ParseColmap
    \/ ResolveChannel
    \/ MapFallback
    \/ RenameMetrics
    \/ RequireChannelId
    \/ JoinMetrics
    \/ WriteOut
    \/ Exit

(***************************************************************************)
(* Inputs.  Bounds of the model                                            *)
(***************************************************************************)
MaxOppCols == 2
MaxOppRows == 2
MaxMetricsRows == 2
MaxMapRows == 2
MaxPairs == 2

SeqsUpTo(S, n) == UNION {[1..k -> S] : k \in 0..n}

SeqsNoRepeat(S, n) ==
    UNION {{s \in [1..k -> S] : \A i, j \in 1..k : i # j => s[i] # s[j]} : k \in 0..n}

\* The sub-sequences of s (s with some entries left out).
SubSeqs(s) == {SelectSeq(s, LAMBDA x : x \in S) : S \in SUBSET Range(s)}

OppHeaders == Range(ChannelCandidates) \cup Range(AccountCandidates) \cup {"Id", "Extra", "views_30d"}

RenameHeaders == <<"channel_id", "Channel ID", "views_30d">>

MetricValues == <<"m1", "m2", "m3", "m4">>

\* A sample cell for a header of an opportunity export.
SampleCell(c) ==
    CASE c \in {"Account.YouTube_Channel_ID__c", "Channel_ID__c"} -> "UC1"
      [] c \in {"YouTube_Channel_ID__c", "channel_id"} -> "UC2"
      [] c \in {"Account.Name", "Account"} -> "Acme"
      [] c = "account_name" -> "Beta"
      [] OTHER -> "x"

\* An opportunity row with the given channel identifier and account name.
OppRow(cols, key, acct) ==
    [i \in 1..Len(cols) |->
        IF Contains(ChannelCandidates, cols[i]) THEN key
        ELSE IF Contains(AccountCandidates, cols[i]) THEN acct
        ELSE "x"]

\* A metrics table: row j has key keys[j] and carries MetricValues[j] in its metric fields.
MetricsTable(cols, keys) ==
    Tbl(cols, [j \in 1..Len(keys) |->
                 [i \in 1..Len(cols) |->
                    IF cols[i] \in {"channel_id", "Channel ID"} THEN keys[j] ELSE MetricValues[j]]])

GoodMap == Tbl(<<"account_name", "channel_id">>, << <<"Acme", "UC1">> >>)
BadMap == Tbl(<<"account_name">>, << <<"Acme">> >>)

Fragments(wss) ==
    {[kind |-> "blank"], [kind |-> "bare"]} \cup
    {[kind |-> "pair", new |-> [ws |-> w, word |-> n], old |-> [ws |-> w, word |-> o]] :
        n \in Range(RenameHeaders), o \in Range(RenameHeaders), w \in wss}

Fresh ==
    /\ pc = "parse"
    /\ colmap = <<>>
    /\ opps = Tbl(<<>>, <<>>)
    /\ metrics = Tbl(<<>>, <<>>)
    /\ channel_col = None
    /\ map_used = FALSE
    /\ map_join = <<>>
    /\ metrics_join = <<>>
    /\ merged = None
    /\ err = ""
    /\ out_file = None
    /\ once = None
    /\ twice = None

\* Any short header row of an opportunity export, one row; metrics with or without channel_id;
\* no map, a good map or a map that lacks channel_id.
InitColumns ==
    /\ \E cols \in SeqsNoRepeat(OppHeaders, MaxOppCols) \ {<<>>} :
          opps_df = Tbl(cols, << [i \in 1..Len(cols) |-> SampleCell(cols[i])] >>)
    /\ metrics_df \in {MetricsTable(<<"channel_id", "views_30d">>, <<"UC1">>),
                       MetricsTable(<<"views_30d">>, <<"UC1">>)}
    /\ map_df \in {None, Some(GoodMap), Some(BadMap)}
    /\ metrics_cols = <<>>

\* Every subset of the five metric fields, joined to opportunity tables that may
\* carry a column of the same name; one row matches, one does not.
InitFields ==
    /\ \E key \in {"channel_id", "Account.YouTube_Channel_ID__c", "Account.Name"},
          extra \in {<<>>} \cup {<<f>> : f \in Range(MetricFields)} :
          opps_df = Tbl(<<key>> \o extra,
                        <<OppRow(<<key>> \o extra, "UC1", "Acme"),
                          OppRow(<<key>> \o extra, "UC2", "Beta")>>)
    /\ \E fields \in SubSeqs(MetricFields) :
          metrics_df = MetricsTable(<<"channel_id">> \o fields, <<"UC1">>)
    /\ map_df = Some(GoodMap)
    /\ metrics_cols = <<>>

\* Opportunity rows with a channel column, metrics rows with repeated, missing or null keys.
InitRowsDirect ==
    /\ \E key \in {"channel_id", "Account.YouTube_Channel_ID__c"},
          keys \in SeqsUpTo({NaN, "UC1", "UC2"}, MaxOppRows) :
          opps_df = Tbl(<<key, "Account.Name">>,
                        [r \in 1..Len(keys) |-> OppRow(<<key, "Account.Name">>, keys[r], "Acme")])
    /\ \E keys \in SeqsUpTo({NaN, "UC1", "UC2"}, MaxMetricsRows) :
          metrics_df = MetricsTable(<<"channel_id", "views_30d">>, keys)
    /\ map_df = None
    /\ metrics_cols = <<>>

\* Opportunity rows without a channel column, resolved through a channel map.
InitRowsMapped ==
    /\ \E accts \in SeqsUpTo({"Acme", "Beta"}, MaxOppRows) :
          opps_df = Tbl(<<"Account.Name", "Extra">>,
                        [r \in 1..Len(accts) |-> OppRow(<<"Account.Name", "Extra">>, NaN, accts[r])])
    /\ \E keys \in SeqsUpTo({NaN, "UC1"}, MaxMetricsRows) :
          metrics_df = MetricsTable(<<"channel_id", "views_30d">>, keys)
    /\ \E rows \in SeqsUpTo({<<"Acme", "UC1">>, <<"Acme", "UC2">>}, MaxMapRows) :
          map_df = Some(Tbl(<<"account_name", "channel_id">>, rows))
    /\ metrics_cols = <<>>

\* Header mappings given on the command line, applied to metrics exports whose
\* headers are a subset of RenameHeaders.
InitRenames ==
    /\ opps_df \in {Tbl(<<"channel_id">>, << <<"UC1">> >>), Tbl(<<"Extra">>, << <<"x">> >>)}
    /\ \E cols \in SubSeqs(RenameHeaders) : metrics_df = MetricsTable(cols, <<"UC1">>)
    /\ map_df = None
    /\ metrics_cols \in SeqsUpTo(Fragments({FALSE}), MaxPairs)

\* The candidate channel columns (and one other column) in every combination and order.
InitPriority ==
    /\ \E cols \in SeqsNoRepeat(Range(ChannelCandidates) \cup {"Id"}, Len(ChannelCandidates) + 1) \ {<<>>} :
          opps_df = Tbl(cols, << [i \in 1..Len(cols) |-> SampleCell(cols[i])] >>)
    /\ metrics_df = MetricsTable(<<"channel_id", "views_30d">>, <<"UC1">>)
    /\ map_df = None
    /\ metrics_cols = <<>>

Init ==
    /\ Fresh
    /\ \/ InitColumns
       \/ InitPriority
       \/ InitFields
       \/ InitRowsDirect
       \/ InitRowsMapped
       \/ InitRenames

Spec == Init /\ [][Next]_vars

(***************************************************************************)
(* The header rename as a function applied once and then again: the        *)
(* mapping is parsed as in main, then the rename of merge_data is applied  *)
(* to the metrics table and to its own result.                             *)
(***************************************************************************)
InitRename ==
    /\ Fresh
    /\ opps_df = Tbl(<<"channel_id">>, << <<"UC1">> >>)
    /\ \E cols \in SubSeqs(RenameHeaders) : metrics_df = MetricsTable(cols, <<"UC1">>)
    /\ map_df = None
    /\ metrics_cols \in SeqsUpTo(Fragments({FALSE, TRUE}), MaxPairs)

RenameOnce ==
    /\ pc = "resolve"
    /\ once' = Some(HeaderRename(metrics_df, colmap))
    /\ pc' = "once"
    /\ UNCHANGED <<inputs, colmap, opps, metrics, channel_col, map_used, map_join,
                   metrics_join, merged, err, out_file, twice>>

RenameTwice ==
    /\ pc = "once"
    /\ twice' = Some(HeaderRename(once[1], colmap))
    /\ pc' = "twice"
    /\ UNCHANGED <<inputs, colmap, opps, metrics, channel_col, map_used, map_join,
                   metrics_join, merged, err, out_file, once>>

NextRename ==
    \/ ParseColmap
    \/ Exit
    \/ RenameOnce
    \/ RenameTwice

SpecRename == InitRename /\ [][NextRename]_vars

(***************************************************************************)
(* Vocabulary of the properties                                            *)
(***************************************************************************)
Returned == merged # None

Out == merged[1]

\* The opps_df row an output row comes from.
SourceRow(r) ==
    LET i == metrics_join[r][1] IN IF map_used THEN map_join[i][1] ELSE i

\* The cell of row r of table t in its (first) column labelled c.
Cell(t, r, c) == t.rows[r][FirstIndex(t.cols, c)]

HasCandidate == \E k \in 1..Len(ChannelCandidates) : HasColumn(opps_df, ChannelCandidates[k])

HasAccount == \E k \in 1..Len(AccountCandidates) : HasColumn(opps_df, AccountCandidates[k])

(***************************************************************************)
(* C1: whenever merge_data returns, the output has exactly as many rows as *)
(* the opportunity table, and output row r comes from input row r, however *)
(* many metrics rows or channel-map rows share a key.                      *)
(***************************************************************************)
C1_RowPreservation ==
    Returned =>
        /\ Len(Out.rows) = Len(opps_df.rows)
        /\ \A r \in 1..Len(Out.rows) : SourceRow(r) = r

(***************************************************************************)
(* C2: whenever merge_data returns, the output has a column named exactly  *)
(* as each of the five metric fields, whatever the opportunity table's     *)
(* columns are, and a field the metrics table (after the header rename)    *)
(* lacks is null in every output row.                                      *)
(***************************************************************************)
C2_SchemaStability ==
    Returned =>
        \A k \in 1..Len(MetricFields) :
            /\ HasColumn(Out, MetricFields[k])
            /\ ~HasColumn(HeaderRename(metrics_df, colmap), MetricFields[k]) =>
                  \A r \in 1..Len(Out.rows) : Cell(Out, r, MetricFields[k]) = NaN

(***************************************************************************)
(* C3: whenever merge_data returns, the column named by channel_column (a  *)
(* candidate column of the opportunity table, or channel_id when the map   *)
(* was used) is exactly one column of the output, and every output row     *)
(* holds in it the value its opportunity row had before the metrics join:  *)
(* the input cell, or with the map the channel_id of the matched map row   *)
(* (null when no map row matched).                                         *)
(***************************************************************************)
C3_ChannelColumnPreserved ==
    Returned =>
        LET ch == channel_col[1] IN
        /\ Cardinality(Positions(Out.cols, ch)) = 1
        /\ IF map_used THEN ch = "channel_id" /\ ~HasCandidate
           ELSE Contains(ChannelCandidates, ch) /\ HasColumn(opps_df, ch)
        /\ Len(Out.rows) = Len(metrics_join)
        /\ \A r \in 1..Len(Out.rows) :
              LET i == metrics_join[r][1] IN
              /\ Cell(Out, r, ch) = Cell(opps, i, ch)
              /\ ~map_used => Cell(Out, r, ch) = Cell(opps_df, i, ch)
              /\ map_used =>
                    Cell(Out, r, ch) = IF map_join[i][2] = 0 THEN NaN
                                       ELSE Cell(map_df[1], map_join[i][2], "channel_id")

\* A run joined on Account.YouTube_Channel_ID__c with a matched and an unmatched row.
C3_Witness ==
    /\ Returned
    /\ channel_col = Some("Account.YouTube_Channel_ID__c")
    /\ \E r \in 1..Len(metrics_join) : metrics_join[r][2] = 0
    /\ \E r \in 1..Len(metrics_join) : metrics_join[r][2] # 0

(***************************************************************************)
(* C4: the resolver returns the earliest entry of the fixed priority list  *)
(* that is a column of the opportunity table, wherever the columns stand   *)
(* in the table and whichever later candidates are present, and not-found  *)
(* exactly when none is present; a table with both                         *)
(* Account.YouTube_Channel_ID__c and channel_id is joined on the former.   *)
(***************************************************************************)
C4_ColumnPriority ==
    LET present == {k \in 1..4 : HasColumn(opps_df, ChannelCandidates[k])}
        first   == CHOOSE k \in present : \A j \in present : k <= j
    IN  /\ pc = "fallback" => present = {} /\ channel_col = None
        /\ pc \in {"rename", "require", "join", "write", "done"} /\ ~map_used =>
              present # {} /\ channel_col = Some(ChannelCandidates[first])
        /\ map_used => present = {}
        /\ Returned /\ HasColumn(opps_df, "Account.YouTube_Channel_ID__c")
                    /\ HasColumn(opps_df, "channel_id") =>
              /\ channel_col = Some("Account.YouTube_Channel_ID__c")
              /\ metrics_join = LeftJoinPairs(Column(opps_df, "Account.YouTube_Channel_ID__c"),
                                              Column(metrics_df, "channel_id"))

\* channel_id stands before Account.YouTube_Channel_ID__c in the table, and the latter is used.
C4_Witness ==
    /\ Returned
    /\ HasColumn(opps_df, "channel_id")
    /\ HasColumn(opps_df, "Account.YouTube_Channel_ID__c")
    /\ FirstIndex(opps_df.cols, "channel_id") < FirstIndex(opps_df.cols, "Account.YouTube_Channel_ID__c")
    /\ channel_col = Some("Account.YouTube_Channel_ID__c")
    /\ metrics_join = << <<1, 1>> >>

(***************************************************************************)
(* C5: when the map fallback is used, an opportunity row whose account     *)
(* name is in the map carries the metric fields of a metrics row whose     *)
(* channel_id is an identifier the map gives for that account (null when   *)
(* there is no such metrics row), and a row whose account name is not in   *)
(* the map has null in all metric fields, whatever the metrics rows are.   *)
(***************************************************************************)
C5_MapFallback ==
    Returned /\ map_used =>
        \A r \in 1..Len(Out.rows) :
            LET acct   == Cell(opps_df, SourceRow(r), _select_account_column(opps_df.cols)[1])
                cmap   == map_df[1]
                mapped == {Cell(cmap, k, "channel_id") :
                             k \in {k \in 1..Len(cmap.rows) : Cell(cmap, k, "account_name") = acct}}
                id     == Cell(Out, r, "channel_id")
                hits   == {j \in 1..Len(metrics.rows) : Cell(metrics, j, "channel_id") = id}
                fields == {f \in Range(MetricFields) : HasColumn(Out, f)}
            IN  IF mapped = {}
                THEN \A f \in fields : Cell(Out, r, f) = NaN
                ELSE /\ id \in mapped
                     /\ IF hits = {} THEN \A f \in fields : Cell(Out, r, f) = NaN
                        ELSE \E j \in hits : \A f \in fields : Cell(Out, r, f) = Cell(metrics, j, f)

(***************************************************************************)
(* C6 to C10 speak of the parsed mapping: they hold of runs whose          *)
(* --metrics-cols argument parsed.                                         *)
(***************************************************************************)
Parsed == pc # "parse" /\ err # ErrBadPair

Ended == pc \in {"done", "exit"}

\* The metrics table has no channel_id column and no pair of the mapping supplies it.
NoChannelIdSupplied ==
    /\ ~HasColumn(metrics_df, "channel_id")
    /\ \A i \in 1..Len(colmap) :
          ~(colmap[i][1] = "channel_id" /\ HasColumn(metrics_df, colmap[i][2]))

MapHasBoth ==
    map_df # None /\ HasColumn(map_df[1], "account_name") /\ HasColumn(map_df[1], "channel_id")

(***************************************************************************)
(* C6 as stated: for every opportunity table, map and mapping, a metrics   *)
(* table without channel_id that no pair supplies ends the run in an error *)
(* whose message cites channel_id, with no table returned and nothing      *)
(* written.  (That the error is a schema error is left out, so that no     *)
(* violation rests on how an error is classified.)                         *)
(***************************************************************************)
C6_AlwaysCitesChannelId ==
    Parsed /\ Ended /\ NoChannelIdSupplied =>
        /\ pc = "exit"
        /\ err \in CitesChannelId
        /\ merged = None
        /\ out_file = None

(***************************************************************************)
(* C6 amended: a metrics table without channel_id that no pair supplies    *)
(* never reaches the join: no table is returned and nothing is written,    *)
(* and the run ends in an error.  The error is the metrics schema error    *)
(* citing channel_id when the opportunity table has a candidate channel    *)
(* column or the map fallback completes (a map with both columns, an       *)
(* account column, the join with the map done); otherwise it is the error  *)
(* of the failed fallback check.  In every run the output file is written  *)
(* only with the table merge_data returned.                                *)
(***************************************************************************)
C6_MissingChannelIdFails ==
    /\ out_file # None => merged # None /\ out_file = merged /\ err = ""
    /\ Parsed /\ NoChannelIdSupplied =>
          /\ merged = None
          /\ out_file = None
          /\ pc \notin {"join", "write", "done"}
          /\ pc = "exit" =>
                IF HasCandidate \/ (MapHasBoth /\ HasAccount)
                THEN err = ErrMetricsSchema /\ err \in CitesChannelId
                ELSE err \in {ErrNoChannel, ErrMapSchema, ErrNoAccount}

\* A mapping that names only headers the metrics table lacks, and the run ends in the
\* metrics schema error.
C6_Witness ==
    /\ pc = "exit"
    /\ NoChannelIdSupplied
    /\ colmap # <<>>
    /\ metrics_df.cols # <<>>
    /\ err = ErrMetricsSchema
    /\ out_file = None

(***************************************************************************)
(* C7: whenever merge_data returns, the output columns are the preferred   *)
(* list filtered to the joined table's columns, then the joined table's    *)
(* other columns in their order; the output columns are the joined         *)
(* table's columns and no name appears twice.                              *)
(***************************************************************************)
C7_ColumnOrder ==
    Returned =>
        LET ch     == channel_col[1]
            joined == MetricsJoin(opps, ch, metrics).table.cols
        IN  /\ Out.cols = SelectSeq(Preferred(ch), LAMBDA c : Contains(joined, c))
                          \o SelectSeq(joined, LAMBDA c : ~Contains(Preferred(ch), c))
            /\ Range(Out.cols) = Range(joined)
            /\ \A i, k \in 1..Len(Out.cols) : i # k => Out.cols[i] # Out.cols[k]

\* The header rename has been applied (the run is at or past the channel_id requirement).
Renamed ==
    \/ pc \in {"require", "join", "write", "done"}
    \/ pc \in {"raised", "exit"} /\ err \in {ErrMetricsSchema, ErrNotUnique}

(***************************************************************************)
(* C8 as stated: every pair (expected, source) whose source is a column of *)
(* the metrics table leaves that column named expected when channel_id is  *)
(* required, also when two pairs name the same source; hence a metrics     *)
(* table without channel_id and with a source mapped to channel_id passes. *)
(***************************************************************************)
C8_EveryPairApplied ==
    Renamed =>
        \A i \in 1..Len(colmap) :
            /\ \A k \in Positions(metrics_df.cols, colmap[i][2]) : metrics.cols[k] = colmap[i][1]
            /\ colmap[i][1] = "channel_id" /\ HasColumn(metrics_df, colmap[i][2]) =>
                  err # ErrMetricsSchema

\* No later item of the mapping names the source of item i.
LastForSource(i) == \A j \in (i + 1)..Len(colmap) : colmap[j][2] # colmap[i][2]

(***************************************************************************)
(* C8 amended: every pair whose source is a column of the metrics table    *)
(* and whose source no later pair of the mapping names leaves that column  *)
(* named expected when channel_id is required (of several pairs with one   *)
(* source only the last takes effect); hence a metrics table with a source *)
(* header that such a pair maps to channel_id passes the requirement.      *)
(***************************************************************************)
C8_LastPairApplied ==
    Renamed =>
        \A i \in 1..Len(colmap) :
            LastForSource(i) =>
                /\ \A k \in Positions(metrics_df.cols, colmap[i][2]) : metrics.cols[k] = colmap[i][1]
                /\ colmap[i][1] = "channel_id" /\ HasColumn(metrics_df, colmap[i][2]) =>
                      err # ErrMetricsSchema

\* Two pairs name the header of a metrics table without channel_id, the last one maps it
\* to channel_id, and the requirement passes.
C8_Witness ==
    /\ pc = "join"
    /\ ~HasColumn(metrics_df, "channel_id")
    /\ Len(colmap) = 2
    /\ colmap[1][2] = colmap[2][2]
    /\ colmap[2][1] = "channel_id"
    /\ HasColumn(metrics_df, colmap[2][2])

(***************************************************************************)
(* C9 as stated: for every mapping parse_colmap produces and every metrics *)
(* column set, renaming twice gives the same column set as renaming once.  *)
(***************************************************************************)
C9_RenameIdempotent ==
    pc = "twice" => Range(twice[1].cols) = Range(once[1].cols)

\* No expected name is also the source header of a pair with another expected name.
NoChainedPair ==
    \A i, j \in 1..Len(colmap) : colmap[i][1] = colmap[j][2] => colmap[j][1] = colmap[i][1]

(***************************************************************************)
(* C9 amended: for every mapping parse_colmap produces in which no         *)
(* expected name is also the source header of a pair with a different      *)
(* expected name, renaming twice gives the same columns as renaming once,  *)
(* and a header that is the source of the last pair naming it is called    *)
(* by that pair's expected name after one and after two renames.           *)
(***************************************************************************)
C9_RenameIdempotentNoChain ==
    pc = "twice" /\ NoChainedPair =>
        /\ twice[1].cols = once[1].cols
        /\ \A i \in 1..Len(colmap) :
              LastForSource(i) =>
                  \A k \in Positions(metrics_df.cols, colmap[i][2]) :
                      once[1].cols[k] = colmap[i][1] /\ twice[1].cols[k] = colmap[i][1]

\* channel_id:Channel ID applied twice to a table whose header is Channel ID.
C9_Witness ==
    /\ pc = "twice"
    /\ colmap = << <<"channel_id", "Channel ID">> >>
    /\ metrics_df.cols = <<"Channel ID">>
    /\ once[1].cols = <<"channel_id">>
    /\ twice[1].cols = <<"channel_id">>

(***************************************************************************)
(* C10: merge_data raises the error of the first violated precondition in  *)
(* the order (1) no channel column and no map, (2) map lacks account_name  *)
(* or channel_id, (3) no account column, (4) metrics lacks channel_id      *)
(* after renaming, and performs no later step; (1)-(3) are checked only    *)
(* when the opportunity table has no candidate channel column, so with a   *)
(* channel column present a map of the wrong schema raises nothing and     *)
(* map_used is false.                                                      *)
(***************************************************************************)
C10_ErrorPrecedence ==
    Parsed /\ Ended =>
        LET v1 == ~HasCandidate /\ map_df = None
            v2 == ~HasCandidate /\ map_df # None /\ ~MapHasBoth
            v3 == ~HasCandidate /\ ~HasAccount
            early == {ErrNoChannel, ErrMapSchema, ErrNoAccount}
        IN  /\ v1 => err = ErrNoChannel
            /\ ~v1 /\ v2 => err = ErrMapSchema
            /\ ~v1 /\ ~v2 /\ v3 => err = ErrNoAccount
            /\ ~v1 /\ ~v2 /\ ~v3 =>
                  /\ err \notin early
                  /\ err = ErrMetricsSchema <=> ~HasColumn(metrics, "channel_id")
            /\ err \in early =>
                  /\ opps = opps_df /\ map_join = <<>> /\ ~map_used /\ channel_col = None
                  /\ metrics = metrics_df /\ metrics_join = <<>> /\ merged = None
            /\ err = ErrMetricsSchema =>
                  /\ Len(metrics.cols) = Len(metrics_df.cols) /\ metrics.rows = metrics_df.rows
                  /\ metrics_join = <<>> /\ merged = None
            /\ HasCandidate => ~map_used /\ opps = opps_df /\ map_join = <<>>
            /\ map_used <=> ~HasCandidate /\ err \notin early

\* A map without channel_id, no account column and metrics without channel_id: three
\* preconditions fail and the map's error is raised.
C10_Witness ==
    /\ pc = "exit"
    /\ err = ErrMapSchema
    /\ ~HasAccount
    /\ ~HasColumn(metrics_df, "channel_id")
    /\ metrics = metrics_df
    /\ opps = opps_df

=============================================================================
